---------------------------- MODULE Spec2Model ----------------------------
(***************************************************************************)
(* A model of the PII anonymization pipeline of python-pdf-extractor:      *)
(*   - mapping_engine.py      build_replacement_map, build_master_pii,      *)
(*                            create_all_maps                              *)
(*   - replacement_engine.py  find_spans, smart_replace                     *)
(* Python strings are sequences of one-character strings; a Python dict is *)
(* a sequence of items in insertion order (dicts iterate in that order).   *)
(***************************************************************************)
EXTENDS Integers, Sequences, FiniteSets, TLC

\* ------------------------------------------------------------------------
\* Python string primitives
\* ------------------------------------------------------------------------
UpperCase == <<"A","B","C","D","E","F","G","H","I","J","K","L","M",
               "N","O","P","Q","R","S","T","U","V","W","X","Y","Z">>
LowerCase == <<"a","b","c","d","e","f","g","h","i","j","k","l","m",
               "n","o","p","q","r","s","t","u","v","w","x","y","z">>
Digits == <<"0","1","2","3","4","5","6","7","8","9">>

Range(s) == {s[i] : i \in DOMAIN s}

UpperSet == Range(UpperCase)
LowerSet == Range(LowerCase)
DigitSet == Range(Digits)

\* str.lower() on one character
LowerOf == [c \in UpperSet |-> LowerCase[CHOOSE i \in DOMAIN UpperCase : UpperCase[i] = c]]
UpperOf == [c \in LowerSet |-> UpperCase[CHOOSE i \in DOMAIN LowerCase : LowerCase[i] = c]]
lower_char(c) == IF c \in UpperSet THEN LowerOf[c] ELSE c
upper_char(c) == IF c \in LowerSet THEN UpperOf[c] ELSE c

\* str.lower() / str.upper()
str_lower(s) == [i \in DOMAIN s |-> lower_char(s[i])]
str_upper(s) == [i \in DOMAIN s |-> upper_char(s[i])]

\* the regex class \s and the class \w (ASCII text)
SpaceSet == {" ", "\n", "\t", "\r"}
IsSpace(c) == c \in SpaceSet
IsWord(c) == c \in UpperSet \/ c \in LowerSet \/ c \in DigitSet \/ c = "_"

\* s[a:b] with 0-based Python offsets, 0 <= a <= b <= len(s)
Slice(s, a, b) == [i \in 1..(b - a) |-> s[a + i]]

\* str(n) for a non-negative integer
RECURSIVE int_str(_)
int_str(n) == IF n < 10 THEN <<Digits[n + 1]>>
              ELSE int_str(n \div 10) \o <<Digits[(n % 10) + 1]>>

\* the indices of a string, in order
Indices(s) == [i \in 1..Len(s) |-> i]

\* re.sub(r"\s+", " ", s): a run of whitespace becomes one space
collapse_ws(s) ==
    LET Keep(i) == ~IsSpace(s[i]) \/ i = 1 \/ ~IsSpace(s[i - 1])
        kept == SelectSeq(Indices(s), Keep)
    IN [k \in DOMAIN kept |-> IF IsSpace(s[kept[k]]) THEN " " ELSE s[kept[k]]]

\* the maximal runs of characters outside seps, as <<start, end>> offsets
token_runs(s, seps) ==
    LET IsStart(i) == s[i] \notin seps /\ (i = 1 \/ s[i - 1] \in seps)
        IsEnd(i) == s[i] \notin seps /\ (i = Len(s) \/ s[i + 1] \in seps)
        starts == SelectSeq(Indices(s), IsStart)
        ends == SelectSeq(Indices(s), IsEnd)
    IN [k \in DOMAIN starts |-> <<starts[k] - 1, ends[k]>>]

\* str.split(): the maximal runs of non-whitespace characters
str_split(s) ==
    LET runs == token_runs(s, SpaceSet)
    IN [k \in DOMAIN runs |-> Slice(s, runs[k][1], runs[k][2])]

RECURSIVE first_nonspace(_, _)
first_nonspace(s, i) ==
    IF i > Len(s) \/ ~IsSpace(s[i]) THEN i ELSE first_nonspace(s, i + 1)

RECURSIVE last_nonspace(_, _)
last_nonspace(s, i) ==
    IF i < 1 \/ ~IsSpace(s[i]) THEN i ELSE last_nonspace(s, i - 1)

str_strip(s) == SubSeq(s, first_nonspace(s, 1), last_nonspace(s, Len(s)))

\* ------------------------------------------------------------------------
\* Python values found in pii.json: strings, integers, booleans
\* ------------------------------------------------------------------------
PyS(s) == [t |-> "str", s |-> s]
PyI(n) == [t |-> "int", n |-> n]
PyB(b) == [t |-> "bool", b |-> b]
PyNone == [t |-> "none"]

\* truthiness, as `if not original_value` tests it
Truthy(v) == CASE v.t = "str" -> v.s # <<>>
               [] v.t = "int" -> v.n # 0
               [] v.t = "bool" -> v.b
               [] v.t = "none" -> FALSE

\* str(value)
py_str(v) == CASE v.t = "str" -> v.s
               [] v.t = "int" -> int_str(v.n)
               [] v.t = "bool" -> IF v.b THEN <<"T","r","u","e">>
                                  ELSE <<"F","a","l","s","e">>

\* ------------------------------------------------------------------------
\* mapping_engine.py
\* ------------------------------------------------------------------------
\* a key made of the value's string form as it is
no_normalize(v) == py_str(v)

\* normalize(value): lowercase, collapse whitespace runs, strip
map_normalize(v) == str_strip(collapse_ws(str_lower(py_str(v))))

\* f"{field}" for the category names of the model
FieldChars == [Name |-> <<"N","a","m","e">>, MRN |-> <<"M","R","N">>,
               Address |-> <<"A","d","d","r","e","s","s">>,
               Sex |-> <<"S","e","x">>,
               Other |-> <<"O","t","h","e","r">>]

\* key = f"{field}::{normalize(original_value)}"
MakeKey(field, v) == FieldChars[field] \o <<":", ":">> \o map_normalize(v)

\* dummy_value = f"[REDACTED-{field}-{len(replacement_map)}]"
Placeholder(field, n) ==
    <<"[","R","E","D","A","C","T","E","D","-">> \o FieldChars[field]
        \o <<"-">> \o int_str(n) \o <<"]">>

\* `key in d` and d[key] for a dict kept as a sequence of items
HasKey(d, k) == \E i \in DOMAIN d : d[i].key = k
Lookup(d, k) == d[CHOOSE i \in DOMAIN d : d[i].key = k]

\* d[key] = item: an existing key keeps its position, a new one is appended
DictSet(d, item) ==
    IF HasKey(d, item.key)
    THEN [i \in DOMAIN d |-> IF d[i].key = item.key THEN item ELSE d[i]]
    ELSE Append(d, item)

\* used_dummies seeded from the loaded map
SeedUsed(d) == {d[i].dummy : i \in DOMAIN d}

ZeroStats == [new_mappings |-> 0, existing_mappings |-> 0, pool_exhausted |-> 0]

\* available_dummies = [d for d in dummy_pool if d not in used_dummies]
AvailableDummies(pool, used) == {pool[i] : i \in DOMAIN pool} \ used

\* replacement_map[key] = {...}; used_dummies.add(...); stats[...] += 1
AddMapping(acc, field, v, dummy, exhausted) ==
    [map |-> DictSet(acc.map, [key |-> MakeKey(field, v), field |-> field,
                               original |-> py_str(v), dummy |-> dummy]),
     used |-> acc.used \cup {dummy},
     stats |-> [acc.stats EXCEPT
                   !.new_mappings = @ + 1,
                   !.pool_exhausted = @ + (IF exhausted THEN 1 ELSE 0)]]

\* a builder that never takes the `if key in replacement_map: continue` exit
NeverSkipMapped(acc, field, v) == FALSE

\* `if key in replacement_map`: an already mapped key is left alone
SkipMapped(acc, field, v) == HasKey(acc.map, MakeKey(field, v))

\* one iteration of `for original_value in pii_values`; random.choice makes
\* the outcome a set
MapValue(acc, field, pool, v) ==
    IF ~Truthy(v) THEN {acc}
    ELSE IF SkipMapped(acc, field, v)
    THEN {[acc EXCEPT !.stats.existing_mappings = @ + 1]}
    ELSE LET avail == AvailableDummies(pool, acc.used)
         IN IF avail # {}
            THEN {AddMapping(acc, field, v, d, FALSE) : d \in avail}
            ELSE {AddMapping(acc, field, v,
                             Placeholder(field, Len(acc.map)), TRUE)}

RECURSIVE MapValues(_, _, _, _)
MapValues(accs, field, pool, vals) ==
    IF vals = <<>> THEN accs
    ELSE MapValues(UNION {MapValue(a, field, pool, Head(vals)) : a \in accs},
                   field, pool, Tail(vals))

\* dummy_pool = dummy_data.get(field, [])
PoolOf(dummy_data, field) ==
    IF field \in DOMAIN dummy_data THEN dummy_data[field] ELSE <<>>

\* one iteration of `for field, pii_values in pii_data.items()`
MapField(accs, dummy_data, item) ==
    LET pool == PoolOf(dummy_data, item.field)
    IN IF pool = <<>> THEN accs
       ELSE MapValues(accs, item.field, pool, item.values)

RECURSIVE MapFields(_, _, _)
MapFields(accs, dummy_data, pii) ==
    IF pii = <<>> THEN accs
    ELSE MapFields(MapField(accs, dummy_data, Head(pii)), dummy_data, Tail(pii))

\* a builder that starts from an empty map whatever is persisted
LoadNothing(persisted) == <<>>

\* replacement_map = load_json(output_path) if Path(output_path).exists() else {}
LoadPersisted(persisted) == persisted

\* build_replacement_map(pii_data, dummy_data, output_path): the possible
\* (map, used, stats) results, starting from the persisted map
build_replacement_map(pii, dummy_data, persisted) ==
    MapFields({[map |-> LoadPersisted(persisted),
                used |-> SeedUsed(LoadPersisted(persisted)),
                stats |-> ZeroStats]}, dummy_data, pii)

\* the reverse key of build_master_pii
ReverseKey(e) == FieldChars[e.field] \o <<":", ":">> \o map_normalize(PyS(e.dummy))

\* one iteration of `for key, entry in replacement_map.items()`
MasterStep(acc, e) ==
    IF e.dummy = <<>> \/ e.original = <<>> THEN acc
    ELSE DictSet(acc, [key |-> ReverseKey(e), field |-> e.field,
                       original |-> e.dummy, dummy |-> e.original])

RECURSIVE MasterLoop(_, _, _)
MasterLoop(d, i, acc) ==
    IF i > Len(d) THEN acc
    ELSE CHOOSE r \in {MasterLoop(d, i + 1, a) : a \in {MasterStep(acc, d[i])}} : TRUE

\* build_master_pii(replacement_map)
build_master_pii(d) == MasterLoop(d, 1, <<>>)

\* ------------------------------------------------------------------------
\* rapidfuzz.fuzz as replacement_engine.py calls it.  A similarity is kept
\* as the exact fraction n/d in lowest terms (the library returns the
\* nearest float); two similarities are compared by cross-multiplication.
\* ------------------------------------------------------------------------
RECURSIVE gcd(_, _)
gcd(a, b) == IF b = 0 THEN a ELSE gcd(b, a % b)

Frac(n, d) == LET g == gcd(n, d) IN [n |-> n \div g, d |-> d \div g]
Score(k) == [n |-> k, d |-> 1]
ScoreLess(x, y) == x.n * y.d < y.n * x.d
ScoreAtLeast(x, t) == x.n >= t * x.d
ScoreMax(x, y) == IF ScoreLess(x, y) THEN y ELSE x
ScoreMaxSet(S) == CHOOSE x \in S : \A y \in S : ~ScoreLess(x, y)

\* one row of the longest-common-subsequence table: the character c stays
\* unmatched, or it is matched with the last equal character of b before
\* the column (the row above never decreases from left to right)
lcs_row(c, b, prev) ==
    LET IsC(k) == b[k] = c
        at == Range(SelectSeq(Indices(b), IsC))
    IN [j \in 1..(Len(b) + 1) |->
           LET before == {k \in at : k < j}
               last == CHOOSE k \in before : \A x \in before : x <= k
           IN IF before # {} /\ prev[last] + 1 > prev[j] THEN prev[last] + 1
              ELSE prev[j]] \o <<>>

\* the rows i..hi of the table
RECURSIVE lcs_rows(_, _, _, _, _)
lcs_rows(a, b, i, hi, prev) ==
    IF i > hi THEN prev
    ELSE lcs_rows(a, b, i + 1, hi, lcs_row(a[i], b, prev))

\* the table is filled four rows at a time
RECURSIVE lcs_blocks(_, _, _, _)
lcs_blocks(a, b, i, prev) ==
    IF i > Len(a) THEN prev
    ELSE LET hi == IF i + 3 < Len(a) THEN i + 3 ELSE Len(a)
         IN CHOOSE r \in {lcs_blocks(a, b, hi + 1, row) :
                             row \in {lcs_rows(a, b, i, hi, prev)}} : TRUE

\* the length of a longest common subsequence; the shorter string gives the rows
lcs_len(s1, s2) ==
    LET a == IF Len(s1) <= Len(s2) THEN s1 ELSE s2
        b == IF Len(s1) <= Len(s2) THEN s2 ELSE s1
    IN lcs_blocks(a \o <<>>, b \o <<>>, 1, [k \in 1..(Len(b) + 1) |-> 0] \o <<>>)[Len(b) + 1]

\* the insertion/deletion distance of two strings
indel_distance(a, b) == Len(a) + Len(b) - 2 * lcs_len(a, b)

\* 100 - 100 * dist / lensum
norm_distance(dist, lensum) ==
    IF lensum = 0 THEN Score(100) ELSE Frac(100 * (lensum - dist), lensum)

\* fuzz.ratio(s1, s2)
fuzz_ratio(s1, s2) == norm_distance(indel_distance(s1, s2), Len(s1) + Len(s2))

\* the best fuzz.ratio of the shorter string s1 against the prefixes, the
\* windows of Len(s1) characters and the suffixes of the longer string s2
partial_ratio_impl(s1, s2) ==
    LET len1 == Len(s1)
        len2 == Len(s2)
        cands == {Slice(s2, 0, i) : i \in 1..(len1 - 1)}
                 \cup {Slice(s2, i, i + len1) : i \in 0..(len2 - len1 - 1)}
                 \cup {Slice(s2, i, len2) : i \in (len2 - len1)..(len2 - 1)}
    IN ScoreMaxSet({fuzz_ratio(s1, c) : c \in cands})

\* the second pass of fuzz.partial_ratio: strings of equal length are also
\* aligned the other way round unless the first pass gave 100
partial_ratio_both(shorter, longer, r) ==
    IF r # Score(100) /\ Len(shorter) = Len(longer)
    THEN ScoreMax(r, partial_ratio_impl(longer, shorter))
    ELSE r

\* fuzz.partial_ratio(s1, s2)
fuzz_partial_ratio(s1, s2) ==
    IF s1 = <<>> /\ s2 = <<>> THEN Score(100)
    ELSE IF s1 = <<>> \/ s2 = <<>> THEN Score(0)
    ELSE IF Len(s1) <= Len(s2)
         THEN partial_ratio_both(s1, s2, partial_ratio_impl(s1, s2))
    ELSE partial_ratio_both(s2, s1, partial_ratio_impl(s2, s1))

\* code point order of the characters a token can hold
CodeOrder == Digits \o UpperCase \o <<"_">> \o LowerCase
Ord == [c \in Range(CodeOrder) |-> CHOOSE i \in DOMAIN CodeOrder : CodeOrder[i] = c]

RECURSIVE str_less(_, _)
str_less(a, b) ==
    IF b = <<>> THEN FALSE
    ELSE IF a = <<>> THEN TRUE
    ELSE IF a[1] = b[1] THEN str_less(Tail(a), Tail(b))
    ELSE Ord[a[1]] < Ord[b[1]]

\* " ".join(sorted(tokens))
RECURSIVE sorted_join(_)
sorted_join(S) ==
    IF S = {} THEN <<>>
    ELSE LET m == CHOOSE x \in S : \A y \in S : ~str_less(y, x)
         IN IF S = {m} THEN m ELSE m \o <<" ">> \o sorted_join(S \ {m})

\* the best of the three comparisons of fuzz.token_set_ratio: the two
\* differences, and the intersection against itself joined with each one
token_set_best(result, sect_len, len_ab, len_ba) ==
    IF sect_len = 0 THEN result
    ELSE ScoreMax(result,
            ScoreMax(norm_distance(1 + len_ab, sect_len + (sect_len + 1 + len_ab)),
                     norm_distance(1 + len_ba, sect_len + (sect_len + 1 + len_ba))))

token_set_joined(diff_ab, diff_ba, sect_len) ==
    token_set_best(norm_distance(indel_distance(diff_ab, diff_ba),
                                 (IF sect_len # 0 THEN 2 * sect_len + 2 ELSE 0)
                                 + Len(diff_ab) + Len(diff_ba)),
                   sect_len, Len(diff_ab), Len(diff_ba))

token_set_of(tokens_a, tokens_b) ==
    IF tokens_a = {} \/ tokens_b = {} THEN Score(0)
    ELSE IF tokens_a \cap tokens_b # {}
            /\ (tokens_a \subseteq tokens_b \/ tokens_b \subseteq tokens_a)
         THEN Score(100)
    ELSE token_set_joined(sorted_join(tokens_a \ tokens_b),
                          sorted_join(tokens_b \ tokens_a),
                          Len(sorted_join(tokens_a \cap tokens_b)))

\* fuzz.token_set_ratio(s1, s2)
fuzz_token_set_ratio(s1, s2) ==
    token_set_of(Range(str_split(s1)), Range(str_split(s2)))

\* ------------------------------------------------------------------------
\* replacement_engine.py: text helpers
\* ------------------------------------------------------------------------
\* FIELD_CONFIG; min_window_factor is held in hundredths
FIELD_CONFIG ==
    [Name |-> [threshold |-> 60, window_extra |-> 4, preserve_case |-> TRUE, min_window_factor |-> 40],
     MRN |-> [threshold |-> 75, window_extra |-> 1, preserve_case |-> FALSE, min_window_factor |-> 70],
     SSN |-> [threshold |-> 80, window_extra |-> 1, preserve_case |-> FALSE, min_window_factor |-> 80],
     DOB |-> [threshold |-> 75, window_extra |-> 1, preserve_case |-> FALSE, min_window_factor |-> 80],
     Sex |-> [threshold |-> 85, window_extra |-> 0, preserve_case |-> FALSE, min_window_factor |-> 90],
     Phone |-> [threshold |-> 75, window_extra |-> 1, preserve_case |-> FALSE, min_window_factor |-> 80],
     Email |-> [threshold |-> 80, window_extra |-> 1, preserve_case |-> FALSE, min_window_factor |-> 80],
     Address |-> [threshold |-> 80, window_extra |-> 5, preserve_case |-> TRUE, min_window_factor |-> 75],
     Healthcare |-> [threshold |-> 70, window_extra |-> 3, preserve_case |-> TRUE, min_window_factor |-> 60],
     DEFAULT |-> [threshold |-> 70, window_extra |-> 2, preserve_case |-> TRUE, min_window_factor |-> 60]]

\* FIELD_CONFIG.get(field_type, FIELD_CONFIG['DEFAULT'])
ConfigOf(field_type) ==
    IF field_type \in DOMAIN FIELD_CONFIG THEN FIELD_CONFIG[field_type]
    ELSE FIELD_CONFIG["DEFAULT"]

\* re.sub(r"[^\w\s]", " ", text)
punct_to_space(s) == [i \in DOMAIN s |-> IF IsWord(s[i]) \/ IsSpace(s[i]) THEN s[i] ELSE " "]

\* normalize(text) of the replacement engine
normalize(text) ==
    IF text = <<>> THEN <<>>
    ELSE str_strip(collapse_ws(punct_to_space(str_lower(text))))

IsLowerAlnum(c) == c \in LowerSet \/ c \in DigitSet

\* normalize_aggressive(text)
normalize_aggressive(text) ==
    IF text = <<>> THEN <<>> ELSE SelectSeq(str_lower(text), IsLowerAlnum)

\* str.isupper(): a cased character exists and no cased character is lower case
str_isupper(s) ==
    /\ \E i \in DOMAIN s : s[i] \in UpperSet
    /\ \A i \in DOMAIN s : s[i] \notin LowerSet

\* str.capitalize()
str_capitalize(w) ==
    [i \in DOMAIN w |-> IF i = 1 THEN upper_char(w[i]) ELSE lower_char(w[i])]

RECURSIVE join_space(_, _)
join_space(ws, i) ==
    IF i > Len(ws) THEN <<>>
    ELSE IF i = Len(ws) THEN ws[i]
    ELSE ws[i] \o <<" ">> \o join_space(ws, i + 1)

\* preserve_case(original_text, replacement_text)
preserve_case(original_text, replacement_text) ==
    IF original_text = <<>> \/ replacement_text = <<>> THEN replacement_text
    ELSE IF str_isupper(original_text) THEN str_upper(replacement_text)
    ELSE IF original_text[1] \in UpperSet
         THEN LET words == str_split(replacement_text)
              IN join_space([i \in DOMAIN words |-> str_capitalize(words[i])], 1)
    ELSE str_lower(replacement_text)

\* char_similarity(text1, text2)
char_similarity(text1, text2) ==
    fuzz_ratio(normalize_aggressive(text1), normalize_aggressive(text2))

\* a span whose matched text is read from the normalized copy
NormalizedSpan(start, end, text, score) ==
    [start |-> start, end |-> end, text |-> normalize(Slice(text, start, end)),
     score |-> score]

\* a span tuple (start, end, matched text, similarity); offsets count from 0
Span(start, end, text, score) ==
    [start |-> start, end |-> end, text |-> Slice(text, start, end), score |-> score]

\* ------------------------------------------------------------------------
\* The regular expressions of the span finder
\* ------------------------------------------------------------------------
CommaSpace == {",", " ", "\n", "\t", "\r"}
DashDotSpace == {"-", ".", " ", "\n", "\t", "\r"}

\* re.split(r'[<seps>]+', s): empty strings are kept at both ends
re_split(s, seps) ==
    LET runs == token_runs(s, seps)
    IN IF s = <<>> THEN <<(<<>>)>>
       ELSE (IF s[1] \in seps THEN <<(<<>>)>> ELSE <<>>)
            \o [k \in DOMAIN runs |-> Slice(s, runs[k][1], runs[k][2])]
            \o (IF s[Len(s)] \in seps THEN <<(<<>>)>> ELSE <<>>)

\* the end of the longest run of separator characters that starts at pos
RECURSIVE skip_run(_, _, _)
skip_run(text, pos, seps) ==
    IF pos < Len(text) /\ text[pos + 1] \in seps THEN skip_run(text, pos + 1, seps)
    ELSE pos

\* an escaped literal under re.IGNORECASE at offset pos
match_literal(text, pos, part) ==
    /\ pos + Len(part) <= Len(text)
    /\ \A k \in 1..Len(part) : lower_char(text[pos + k]) = lower_char(part[k])

\* \b at offset pos
WordBoundary(text, pos) ==
    (pos > 0 /\ IsWord(text[pos])) # (pos < Len(text) /\ IsWord(text[pos + 1]))

\* the parts joined by a greedy run of separators, matched at pos: the end of
\* the match, or -1.  No part holds a separator, so every run that a
\* non-empty part follows is the longest one.
RECURSIVE match_parts(_, _, _, _, _)
match_parts(text, pos, parts, k, seps) ==
    IF ~match_literal(text, pos, parts[k]) THEN -1
    ELSE LET e == pos + Len(parts[k])
         IN IF k = Len(parts) THEN e
            ELSE match_parts(text, skip_run(text, e, seps), parts, k + 1, seps)

\* re.finditer: of the matches found at each offset, the leftmost ones that
\* do not overlap a match taken before
RECURSIVE take_matches(_, _, _, _)
take_matches(ms, i, pos, acc) ==
    IF i > Len(ms) THEN acc
    ELSE IF ms[i][1] < pos THEN take_matches(ms, i + 1, pos, acc)
    ELSE take_matches(ms, i + 1, IF ms[i][2] > ms[i][1] THEN ms[i][2] ELSE ms[i][1] + 1,
                      Append(acc, ms[i]))

Offsets(text) == [i \in 1..(Len(text) + 1) |-> i - 1]

finditer_parts(text, parts, seps) ==
    LET Matches(pos) == match_parts(text, pos, parts, 1, seps) # -1
        starts == SelectSeq(Offsets(text), Matches)
    IN take_matches([k \in DOMAIN starts |->
                        <<starts[k], match_parts(text, starts[k], parts, 1, seps)>>] \o <<>>,
                    1, 0, <<>>)

\* the same parts between two \b; when the last part is empty the run before
\* it gives back characters until the closing \b holds
RECURSIVE match_bounded(_, _, _, _, _)
match_bounded(text, pos, parts, k, seps) ==
    IF ~match_literal(text, pos, parts[k]) THEN -1
    ELSE LET e == pos + Len(parts[k])
             r == skip_run(text, e, seps)
         IN IF k = Len(parts)
            THEN (IF WordBoundary(text, e) THEN e ELSE -1)
            ELSE IF k + 1 = Len(parts) /\ parts[k + 1] = <<>>
            THEN LET ends == {x \in e..r : WordBoundary(text, x)}
                 IN IF ends = {} THEN -1
                    ELSE CHOOSE x \in ends : \A y \in ends : y <= x
            ELSE match_bounded(text, r, parts, k + 1, seps)

finditer_bounded(text, parts, seps) ==
    LET Matches(pos) == WordBoundary(text, pos)
                        /\ match_bounded(text, pos, parts, 1, seps) # -1
        starts == SelectSeq(Offsets(text), Matches)
    IN take_matches([k \in DOMAIN starts |->
                        <<starts[k], match_bounded(text, starts[k], parts, 1, seps)>>] \o <<>>,
                    1, 0, <<>>)

\* re.finditer(r"\S+", text): the words of the text as <<start, end>>
find_words(text) == token_runs(text, SpaceSet) \o <<>>

\* ------------------------------------------------------------------------
\* replacement_engine.py: the span finder
\* ------------------------------------------------------------------------
NonEmpty(s) == s # <<>>

\* the spans of a list of <<start, end>> matches, each scored by
\* fuzz.ratio(normalize(matched_text), norm_target)
ratio_spans(text, ms, norm_target) ==
    [i \in DOMAIN ms |->
        Span(ms[i][1], ms[i][2], text,
             fuzz_ratio(normalize(Slice(text, ms[i][1], ms[i][2])), norm_target))] \o <<>>

\* find_exact_patterns(text, target_value); a target without parts gives the
\* empty pattern, which matches at every offset
find_exact_patterns(text, target_value) ==
    LET pattern_parts == SelectSeq(re_split(target_value, CommaSpace), NonEmpty)
        ms == IF pattern_parts = <<>>
              THEN [i \in 1..(Len(text) + 1) |-> <<i - 1, i - 1>>]
              ELSE finditer_parts(text, pattern_parts, CommaSpace)
    IN ratio_spans(text, ms, normalize(target_value))

\* the spans whose similarity reaches a threshold, in their order
keep_at_least(spans, t) ==
    LET Reaches(x) == ScoreAtLeast(x.score, t) IN SelectSeq(spans, Reaches)

\* threshold = custom_threshold if custom_threshold else config['threshold']
EffectiveThreshold(custom_threshold, config) ==
    IF Truthy(custom_threshold) THEN custom_threshold.n ELSE config.threshold

\* a smallest window that is rounded up instead of down
RoundedUpWindow(target_len, config) ==
    LET w == (target_len * config.min_window_factor + 99) \div 100
    IN IF w < 1 THEN 1 ELSE w

\* min_window = max(1, int(target_len * config['min_window_factor']))
MinWindow(target_len, config) ==
    LET w == (target_len * config.min_window_factor) \div 100
    IN IF w < 1 THEN 1 ELSE w

\* similarity = max(token_score, partial_score[, char_score])
window_scores(norm_span, norm_target, char_score) ==
    ScoreMax(ScoreMax(fuzz_token_set_ratio(norm_span, norm_target),
                      fuzz_partial_ratio(norm_span, norm_target)),
             char_score)

\* the similarity of one window of words (Strategy 2); no score is below 0,
\* so a char_score of 0 stands for the branch that leaves it out
window_similarity(span_text, target_value, norm_target, target_len) ==
    window_scores(normalize(span_text), norm_target,
                  IF target_len <= 2 \/ Len(normalize(target_value)) <= 15
                  THEN char_similarity(span_text, target_value)
                  ELSE Score(0))

\* for i in range(len(words) - window_size + 1)
window_row(text, words, target_value, norm_target, target_len, window_size) ==
    [k \in 1..(IF window_size > Len(words) THEN 0 ELSE Len(words) - window_size + 1) |->
        LET start_pos == words[k][1]
            end_pos == words[k + window_size - 1][2]
        IN Span(start_pos, end_pos, text,
                window_similarity(Slice(text, start_pos, end_pos), target_value,
                                  norm_target, target_len))] \o <<>>

\* a span finder without the word windows of Strategy 2
no_windows(text, words, target_value, norm_target, target_len, window_size, max_window) == <<>>

\* for window_size in range(min_window, max_window + 1)
RECURSIVE window_spans(_, _, _, _, _, _, _)
window_spans(text, words, target_value, norm_target, target_len, window_size, max_window) ==
    IF window_size > max_window THEN <<>>
    ELSE window_row(text, words, target_value, norm_target, target_len, window_size)
         \o window_spans(text, words, target_value, norm_target, target_len,
                         window_size + 1, max_window)

\* Strategy 3: the target's parts between word boundaries
pattern_spans(text, target_value, norm_target, field_type) ==
    LET pattern_parts == re_split(target_value, DashDotSpace)
    IN IF field_type \in {"MRN", "SSN", "Phone", "DOB", "Email"} /\ Len(pattern_parts) > 1
       THEN ratio_spans(text, finditer_bounded(text, pattern_parts, DashDotSpace),
                        norm_target)
       ELSE <<>>

\* Strategy 4: every single word against the target
word_spans(text, words, norm_target) ==
    [i \in DOMAIN words |->
        Span(words[i][1], words[i][2], text,
             fuzz_partial_ratio(normalize(Slice(text, words[i][1], words[i][2])),
                                norm_target))] \o <<>>

\* a sort key (-score, -start): among equal scores the later start first
LaterStartFirst(a, b) ==
    ScoreLess(b.score, a.score) \/ (a.score = b.score /\ a.start > b.start)

\* the sort key (-score, start)
SpanBefore(a, b) ==
    ScoreLess(b.score, a.score) \/ (a.score = b.score /\ a.start < b.start)

\* the place of spans[i] in the stable sort
SortRank(spans, i) ==
    Cardinality({j \in DOMAIN spans :
                    SpanBefore(spans[j], spans[i])
                    \/ (j < i /\ ~SpanBefore(spans[i], spans[j]))}) + 1

\* a span finder that leaves the candidates in the order of the strategies
KeepOrder(spans) == spans

\* all_spans.sort(key=lambda x: (-x[3], x[0]))
SortSpans(spans) ==
    LET rank == [i \in DOMAIN spans |-> SortRank(spans, i)] \o <<>>
    IN [p \in DOMAIN spans |-> spans[CHOOSE i \in DOMAIN spans : rank[i] = p]] \o <<>>

Overlaps(a, b) == a.start < b.end /\ a.end > b.start

\* the greedy pass: a span is kept when it overlaps no span kept before it
RECURSIVE remove_overlaps(_, _, _)
remove_overlaps(spans, i, kept) ==
    IF i > Len(spans) THEN kept
    ELSE IF \E k \in DOMAIN kept : Overlaps(spans[i], kept[k])
         THEN remove_overlaps(spans, i + 1, kept)
    ELSE remove_overlaps(spans, i + 1, Append(kept, spans[i]))

\* all_spans of find_spans before the sort: the candidates of the four
\* strategies, in the order the strategies append them
all_spans(original_text, target_value, field_type, custom_threshold) ==
    LET config == ConfigOf(field_type)
        threshold == EffectiveThreshold(custom_threshold, config)
        norm_target == normalize(target_value)
        target_len == Len(str_split(norm_target))
        words == find_words(original_text)
        windows == window_spans(original_text, words, target_value, norm_target,
                                target_len, MinWindow(target_len, config),
                                target_len + config.window_extra)
        singles == IF target_len >= 2
                   THEN keep_at_least(word_spans(original_text, words, norm_target),
                                      IF threshold + 15 < 95 THEN threshold + 15 ELSE 95)
                   ELSE <<>>
    IN find_exact_patterns(original_text, target_value)
       \o keep_at_least(windows, threshold)
       \o keep_at_least(pattern_spans(original_text, target_value,
                                      norm_target, field_type), threshold)
       \o singles

\* find_spans(original_text, target_value, field_type, custom_threshold)
find_spans(original_text, target_value, field_type, custom_threshold) ==
    LET norm_target == normalize(target_value)
        target_len == Len(str_split(norm_target))
    IN IF target_len = 0 THEN <<>>
       ELSE IF field_type \in {"Address", "Healthcare", "FullAddress", "StreetOnly",
                               "CityStateZip"} /\ Len(norm_target) < 5
            THEN <<>>
       ELSE IF find_words(original_text) = <<>>
            THEN find_exact_patterns(original_text, target_value)
       ELSE remove_overlaps(SortSpans(all_spans(original_text, target_value, field_type,
                                                custom_threshold)), 1, <<>>)

\* ------------------------------------------------------------------------
\* replacement_engine.py: smart_replace
\* ------------------------------------------------------------------------
\* custom_thresholds.get(field)
ThresholdOf(custom_thresholds, field) ==
    IF field \in DOMAIN custom_thresholds THEN PyI(custom_thresholds[field]) ELSE PyNone

\* what the loop body appends for one span of an entry: the tuple
\* (start, end, final_dummy) of all_replacements and the entry of replacement_log
Replacement(entry, span) ==
    [start |-> span.start,
     end |-> span.end,
     dummy_value |-> IF ConfigOf(entry.field).preserve_case
                     THEN preserve_case(span.text, entry.dummy)
                     ELSE entry.dummy,
     field |-> entry.field,
     original_value |-> entry.original,
     matched_text |-> span.text,
     similarity |-> span.score]

\* for start, end, matched_text, score in spans
span_replacements(entry, spans) ==
    [i \in DOMAIN spans |-> Replacement(entry, spans[i])] \o <<>>

\* one iteration of `for key, entry in replacement_map.items()`
entry_replacements(text, entry, custom_thresholds) ==
    IF entry.original = <<>> \/ entry.dummy = <<>> THEN <<>>
    ELSE span_replacements(entry,
                           find_spans(text, entry.original, entry.field,
                                      ThresholdOf(custom_thresholds, entry.field)))

\* all_replacements after the loop over the entries
RECURSIVE replacements_from(_, _, _, _)
replacements_from(text, replacement_map, custom_thresholds, i) ==
    IF i > Len(replacement_map) THEN <<>>
    ELSE entry_replacements(text, replacement_map[i], custom_thresholds)
         \o replacements_from(text, replacement_map, custom_thresholds, i + 1)

all_replacements(text, replacement_map, custom_thresholds) ==
    replacements_from(text, replacement_map, custom_thresholds, 1)

\* the place of reps[i] after all_replacements.sort(key=lambda x: x[0], reverse=True)
ReverseRank(reps, i) ==
    Cardinality({j \in DOMAIN reps :
                    reps[j].start > reps[i].start
                    \/ (reps[j].start = reps[i].start /\ j < i)}) + 1

\* an ascending sort by start that is reversed afterwards: equal starts end
\* up in the opposite of their order in the list
SortThenReverse(reps) ==
    LET Before(j, i) == reps[j].start > reps[i].start
                        \/ (reps[j].start = reps[i].start /\ j > i)
        rank == [i \in DOMAIN reps |->
                    Cardinality({j \in DOMAIN reps : Before(j, i)}) + 1] \o <<>>
    IN [p \in DOMAIN reps |-> reps[CHOOSE i \in DOMAIN reps : rank[i] = p]] \o <<>>

SortByStartReversed(reps) ==
    LET rank == [i \in DOMAIN reps |-> ReverseRank(reps, i)] \o <<>>
    IN [p \in DOMAIN reps |-> reps[CHOOSE i \in DOMAIN reps : rank[i] = p]] \o <<>>

\* the first replacement of every (start, end) range
FirstOfRange(reps) ==
    LET First(i) == \A j \in 1..(i - 1) :
                        <<reps[j].start, reps[j].end>> # <<reps[i].start, reps[i].end>>
        firsts == SelectSeq(Indices(reps), First)
    IN [k \in DOMAIN firsts |-> reps[firsts[k]]] \o <<>>

\* unique_replacements
unique_replacements(text, replacement_map, custom_thresholds) ==
    FirstOfRange(SortByStartReversed(all_replacements(text, replacement_map,
                                                      custom_thresholds)))

\* s[:n] and s[n:]
py_prefix(s, n) == SubSeq(s, 1, IF n < Len(s) THEN n ELSE Len(s))
py_suffix(s, n) == SubSeq(s, n + 1, Len(s))

\* result_text = result_text[:start] + dummy + result_text[end:], in list order
RECURSIVE apply_replacements(_, _, _)
apply_replacements(result_text, reps, i) ==
    IF i > Len(reps) THEN result_text
    ELSE apply_replacements(py_prefix(result_text, reps[i].start)
                            \o reps[i].dummy_value
                            \o py_suffix(result_text, reps[i].end),
                            reps, i + 1)

\* the return value: the rewritten text with the log, or with the count
replace_result(text, found, unique, verbose) ==
    IF verbose THEN <<apply_replacements(text, unique, 1), FirstOfRange(found)>>
    ELSE <<apply_replacements(text, unique, 1), Len(unique)>>

\* the part of smart_replace after the loop over the entries
resolve_and_apply(text, found, verbose) ==
    replace_result(text, found, FirstOfRange(SortByStartReversed(found)), verbose)

\* smart_replace(text, replacement_map, custom_thresholds, verbose)
smart_replace(text, replacement_map, custom_thresholds, verbose) ==
    resolve_and_apply(text, all_replacements(text, replacement_map, custom_thresholds),
                      verbose)

\* ------------------------------------------------------------------------
\* leak_detection.py
\* ------------------------------------------------------------------------
\* the characters of the class [\s\-\(\)\.,#]
LeakSeparators == SpaceSet \cup {"-", "(", ")", ".", ",", "#"}

\* normalize(value) of the leak check: re.sub(r"[\s\-\(\)\.,#]", "", value.lower())
leak_normalize(value) ==
    LET Kept(c) == c \notin LeakSeparators IN SelectSeq(str_lower(value), Kept)

\* `needle in hay` on strings
str_contains(hay, needle) ==
    \E k \in 0..(Len(hay) - Len(needle)) : Slice(hay, k, k + Len(needle)) = needle

\* walk(obj) on the list of one category: only str items are collected
walk_list(values) ==
    LET IsStr(v) == v.t = "str"
        strs == SelectSeq(values, IsStr)
    IN [i \in DOMAIN strs |-> strs[i].s]

\* extract_pii_values(pii_data): walk over the values of the dict, in order
RECURSIVE extract_pii_values(_)
extract_pii_values(pii) ==
    IF pii = <<>> THEN <<>>
    ELSE walk_list(Head(pii).values) \o extract_pii_values(Tail(pii))

\* [normalize(v) for v in original_values if v.strip()]
normalized_originals_of(original_values) ==
    LET NotBlank(v) == str_strip(v) # <<>>
        kept == SelectSeq(original_values, NotBlank)
    IN [i \in DOMAIN kept |-> leak_normalize(kept[i])]

\* a key that an item of detected-leaks.json does not have
Absent == [t |-> "absent"]

\* item.get("matched_text", "")
detected_value_of(item) ==
    IF item.matched_text = Absent THEN <<>> ELSE item.matched_text.s

\* the test of the inner loop
leak_matches(original, normalized_detected) ==
    /\ original # <<>>
    /\ \/ str_contains(normalized_detected, original)
       \/ str_contains(original, normalized_detected)

\* what is appended to confirmed_leaks for an item
confirmed_entry(item) ==
    [pii_type |-> item.pii_type, matched_text |-> detected_value_of(item),
     page |-> item.page, confidence |-> item.confidence]

\* an inner loop that goes on after a match
RECURSIVE append_every_match(_, _, _)
append_every_match(item, normalized_originals, i) ==
    IF i > Len(normalized_originals) THEN <<>>
    ELSE IF leak_matches(normalized_originals[i],
                         leak_normalize(detected_value_of(item)))
         THEN <<confirmed_entry(item)>>
              \o append_every_match(item, normalized_originals, i + 1)
    ELSE append_every_match(item, normalized_originals, i + 1)

\* `for original in normalized_originals`: append at the first match and break
RECURSIVE append_first_match(_, _, _)
append_first_match(item, normalized_originals, i) ==
    IF i > Len(normalized_originals) THEN <<>>
    ELSE IF leak_matches(normalized_originals[i],
                         leak_normalize(detected_value_of(item)))
         THEN <<confirmed_entry(item)>>
    ELSE append_first_match(item, normalized_originals, i + 1)

\* `for item in leaks_data.get("leaked_fields", [])`
RECURSIVE confirmed_leaks_of(_, _)
confirmed_leaks_of(leaked_fields, normalized_originals) ==
    IF leaked_fields = <<>> THEN <<>>
    ELSE append_first_match(Head(leaked_fields), normalized_originals, 1)
         \o confirmed_leaks_of(Tail(leaked_fields), normalized_originals)

\* the dict that check_pii_leak returns
leak_verdict(confirmed_leaks) ==
    IF confirmed_leaks # <<>>
    THEN [real_pii_leak |-> TRUE, total_real_leaks |-> Len(confirmed_leaks),
          leaks |-> confirmed_leaks]
    ELSE [real_pii_leak |-> FALSE, total_real_leaks |-> 0,
          message |-> "No original PII leakage found"]

\* check_pii_leak(pii_path, leaks_path) on the contents of the two files
check_pii_leak(pii, leaked_fields) ==
    leak_verdict(confirmed_leaks_of(leaked_fields,
                                    normalized_originals_of(extract_pii_values(pii))))

\* ------------------------------------------------------------------------
\* State
\* ------------------------------------------------------------------------
VARIABLES
    dummy_data,     \* dummy.json: category -> pool of substitutes
    file,           \* replacement_pii.json, the persisted forward map
    master,         \* master_pii.json, the persisted reverse map
    text,               \* the document text handed to smart_replace
    replacement_map,    \* the map handed to smart_replace
    custom_thresholds,  \* category -> threshold override
    verbose,            \* the verbose flag of smart_replace
    returned,           \* what smart_replace returned; <<>> before the call
    pii_data,           \* pii.json as the leak check loads it
    leaks_data,         \* the leaked_fields of detected-leaks.json
    verdict,            \* <<the dict check_pii_leak returned>>; <<>> before the call
    pii_of,             \* invocation -> the pii_data of that build_replacement_map call
    pc,                 \* invocation -> where the call stands
    local,              \* invocation -> its replacement_map, in memory
    torn,               \* replacement_pii.json holds a truncated or garbled text
    before_write        \* invocation -> the persisted map when it opened the file

mapVars == <<dummy_data, file, master>>
replaceVars == <<text, replacement_map, custom_thresholds, verbose, returned>>
leakVars == <<pii_data, leaks_data, verdict>>
persistVars == <<pii_of, pc, local, torn, before_write>>
vars == <<dummy_data, file, master, text, replacement_map, custom_thresholds,
          verbose, returned, pii_data, leaks_data, verdict,
          pii_of, pc, local, torn, before_write>>

\* no invocation of the builder is under way
NoInvocation ==
    /\ pii_of = <<>>
    /\ pc = <<>>
    /\ local = <<>>
    /\ torn = FALSE
    /\ before_write = <<>>

\* ------------------------------------------------------------------------
\* Inputs of the mapping builder
\* ------------------------------------------------------------------------
MaxVals == 2

MapCategories == {"Name", "MRN"}

sAB == <<"a", "b">>
sC == <<"c">>
dX == <<"x">>
dXup == <<"X">>

\* sensitive values: the empty string and two values
ValueU == {PyS(<<>>), PyS(sAB), PyS(sC)}

ValueLists(n) == UNION {[1..k -> ValueU] : k \in 0..n}

\* pii.json: a dict of one or two categories, each with a list of values
PiiInputs ==
    {<<>>}
    \cup {<<[field |-> f, values |-> vs]>> : f \in MapCategories, vs \in ValueLists(MaxVals)}
    \cup {<<[field |-> f1, values |-> <<v1>>], [field |-> f2, values |-> <<v2>>]>> :
            <<f1, f2, v1, v2>> \in
              {x \in MapCategories \X MapCategories \X ValueU \X ValueU : x[1] # x[2]}}

\* the pools a category can have in dummy.json: empty, one value, two values
\* whose normal forms coincide, and a value that has the form of the
\* builder's own fallback
DummyPools == {<<>>, <<dX>>, <<dX, dXup>>, <<Placeholder("Name", 1)>>}

\* dummy.json: each category has one of the pools or is missing
DummyInputs ==
    UNION {[S -> DummyPools] : S \in SUBSET MapCategories}

\* ------------------------------------------------------------------------
\* The mapping workflow
\* ------------------------------------------------------------------------
InitMap ==
    /\ dummy_data \in DummyInputs
    /\ file = <<>>
    /\ master = <<>>
    /\ text = <<>>
    /\ replacement_map = <<>>
    /\ custom_thresholds = <<>>
    /\ verbose = FALSE
    /\ returned = <<>>
    /\ pii_data = <<>>
    /\ leaks_data = <<>>
    /\ verdict = <<>>
    /\ NoInvocation

\* create_all_maps: load pii.json and dummy.json, build_replacement_map,
\* build_master_pii; both maps are saved
CreateAllMaps(pii) ==
    IF pii = <<>> \/ DOMAIN dummy_data = {}
    THEN UNCHANGED vars
    ELSE \E r \in build_replacement_map(pii, dummy_data, file) :
            /\ file' = r.map
            /\ master' = build_master_pii(r.map)
            /\ UNCHANGED dummy_data
            /\ UNCHANGED replaceVars
            /\ UNCHANGED leakVars
            /\ UNCHANGED persistVars

NextMap == \E pii \in PiiInputs : CreateAllMaps(pii)

SpecMap == InitMap /\ [][NextMap]_vars

\* ------------------------------------------------------------------------
\* The mapping workflow on variants of a value and on values that are not
\* strings
\* ------------------------------------------------------------------------
\* a value, a variant of it in case and whitespace, a value that differs
\* from it by more than that, two integers and the booleans
VariantValues ==
    {PyS(<<"a", " ", "b">>), PyS(<<" ", "A", " ", " ", "b">>), PyS(sAB),
     PyI(0), PyI(7), PyB(FALSE), PyB(TRUE)}

\* pii.json: one category with a list of values
VariantPii ==
    {<<[field |-> "Name", values |-> vs]>> :
        vs \in UNION {[1..k -> VariantValues] : k \in 0..MaxVals}}

InitValues ==
    /\ dummy_data \in {[f \in {"Name"} |-> <<dX>>], [f \in {"Name"} |-> <<dX, dXup>>]}
    /\ file = <<>>
    /\ master = <<>>
    /\ text = <<>>
    /\ replacement_map = <<>>
    /\ custom_thresholds = <<>>
    /\ verbose = FALSE
    /\ returned = <<>>
    /\ pii_data = <<>>
    /\ leaks_data = <<>>
    /\ verdict = <<>>
    /\ NoInvocation

NextValues == \E pii \in VariantPii : CreateAllMaps(pii)

SpecValues == InitValues /\ [][NextValues]_vars

\* ------------------------------------------------------------------------
\* Inputs of the replacement engine
\* ------------------------------------------------------------------------
MaxTextLen == 3

TextAlphabet == {"a", "b", " "}

\* every text of at most MaxTextLen characters, and two texts in which a
\* word that only resembles a target stands next to a word that is part of it
Texts ==
    UNION {[1..k -> TextAlphabet] : k \in 0..MaxTextLen}
    \cup {<<"b", "a", " ", "b">>, <<"b", " ", "b", "a">>}

\* the sensitive values: one word, two words, a word inside the others
Targets == {<<"a", "b">>, <<"a", " ", "b">>, <<"b">>, <<"a", "b", "b">>}

\* the substitute of a category
DummyOf == [Name |-> <<"x", " ", "y">>, MRN |-> <<"m", "1">>]

\* an entry as build_replacement_map writes it
Entry(field, original, dummy) ==
    [key |-> MakeKey(field, PyS(original)), field |-> field,
     original |-> original, dummy |-> dummy]

Entries == {Entry(f, t, DummyOf[f]) : f \in MapCategories, t \in Targets}

\* the maps of at most two entries
ReplacementMaps ==
    {<<>>} \cup {<<e>> : e \in Entries}
    \cup {<<e1, e2>> : <<e1, e2>> \in {x \in Entries \X Entries : x[1].key # x[2].key}}

\* no override, or an override of 0 for one category and of 100 for the other
ThresholdInputs ==
    {[f \in {} |-> 0], [f \in MapCategories |-> IF f = "Name" THEN 0 ELSE 100]}

\* the document, the map and the overrides of the two-entry example
ScenarioText ==
    <<"P","a","t","i","e","n","t"," ","N","a","m","e",":"," ",
      "S","a","t","y","a"," ","P","r","a","k","a","s","h","\n",
      "M","R","N",":"," ","S","W","H","1","2","3","\n",
      "F","o","l","l","o","w","-","u","p"," ","w","i","t","h"," ",
      "s","a","t","y","a"," ","p"," ","r","a","k","a","s","h","\n",
      "R","e","c","o","r","d"," ","n","u","m","b","e","r",":"," ",
      "S","W","H"," ","1","2","3">>

ScenarioMap ==
    <<Entry("Name", <<"S","a","t","y","a"," ","P","r","a","k","a","s","h">>,
            <<"J","o","h","n"," ","D","o","e">>),
      Entry("MRN", <<"S","W","H","1","2","3">>,
            <<"M","R","N","-","0","0","0","0","0","1">>)>>

ScenarioThresholds == [f \in MapCategories |-> IF f = "Name" THEN 75 ELSE 85]

\* ------------------------------------------------------------------------
\* The replacement workflow
\* ------------------------------------------------------------------------
InitReplace ==
    /\ dummy_data = <<>>
    /\ file = <<>>
    /\ master = <<>>
    /\ \/ /\ text \in Texts
          /\ replacement_map \in ReplacementMaps
          /\ custom_thresholds \in ThresholdInputs
       \/ /\ text = ScenarioText
          /\ replacement_map = ScenarioMap
          /\ custom_thresholds = ScenarioThresholds
    /\ verbose \in BOOLEAN
    /\ returned = <<>>
    /\ pii_data = <<>>
    /\ leaks_data = <<>>
    /\ verdict = <<>>
    /\ NoInvocation

\* one call of smart_replace
SmartReplace ==
    /\ returned = <<>>
    /\ returned' = smart_replace(text, replacement_map, custom_thresholds, verbose)
    /\ UNCHANGED <<text, replacement_map, custom_thresholds, verbose>>
    /\ UNCHANGED mapVars
    /\ UNCHANGED leakVars
    /\ UNCHANGED persistVars

NextReplace == SmartReplace

SpecReplace == InitReplace /\ [][NextReplace]_vars


\* ------------------------------------------------------------------------
\* The replacement workflow on texts and substitutes of mixed case
\* ------------------------------------------------------------------------
CaseAlphabet == {"a", "A", "b", "B", " "}

CaseTexts == UNION {[1..k -> CaseAlphabet] : k \in 0..MaxTextLen}

\* substitutes as dummy.json may hold them: words apart by one space, and
\* words of mixed case apart by two
CaseDummies == {<<"x", " ", "y">>, <<"x", " ", " ", "Y", "z">>}

\* one value, in a category that mimics case and in one that does not
CaseMaps == {<<Entry(f, <<"a", "b">>, d)>> : f \in MapCategories, d \in CaseDummies}

InitCase ==
    /\ dummy_data = <<>>
    /\ file = <<>>
    /\ master = <<>>
    /\ text \in CaseTexts
    /\ replacement_map \in CaseMaps
    /\ custom_thresholds = <<>>
    /\ verbose = FALSE
    /\ returned = <<>>
    /\ pii_data = <<>>
    /\ leaks_data = <<>>
    /\ verdict = <<>>
    /\ NoInvocation

SpecCase == InitCase /\ [][NextReplace]_vars

\* ------------------------------------------------------------------------
\* The leak check
\* ------------------------------------------------------------------------
MaxLeaks == 2

\* sensitive values: a blank one, one made of separators only, two that
\* occur in one another's variants, and an integer
LeakValues ==
    {PyS(<<" ">>), PyS(<<"-">>), PyS(<<"a", "b">>), PyS(<<"B">>), PyI(12)}

\* pii.json of the leak check: one category with a list of values
LeakPiiInputs ==
    {<<[field |-> "Name", values |-> vs]>> :
        vs \in UNION {[1..k -> LeakValues] : k \in 0..MaxVals}}

\* the matched texts of the scan: none, empty, part of a value, a value
\* inside other characters, a value around a separator the check does not
\* strip, an unrelated text, the digits of the integer
MatchedTexts ==
    {Absent, PyS(<<>>), PyS(<<"a">>), PyS(<<" ", "A", "b", "-", "c">>),
     PyS(<<"a", "/", "b">>), PyS(<<"x">>), PyS(<<"1", "2">>)}

LeakItem(m) == [pii_type |-> "Name", matched_text |-> m, page |-> 1, confidence |-> 90]

LeakInputs == UNION {[1..k -> {LeakItem(m) : m \in MatchedTexts}] : k \in 0..MaxLeaks}

InitLeak ==
    /\ dummy_data = <<>>
    /\ file = <<>>
    /\ master = <<>>
    /\ text = <<>>
    /\ replacement_map = <<>>
    /\ custom_thresholds = <<>>
    /\ verbose = FALSE
    /\ returned = <<>>
    /\ pii_data \in LeakPiiInputs
    /\ leaks_data \in LeakInputs
    /\ verdict = <<>>
    /\ NoInvocation

\* one run of check_pii_leak
CheckPiiLeak ==
    /\ verdict = <<>>
    /\ verdict' = <<check_pii_leak(pii_data, leaks_data)>>
    /\ UNCHANGED <<pii_data, leaks_data>>
    /\ UNCHANGED mapVars
    /\ UNCHANGED replaceVars
    /\ UNCHANGED persistVars

NextLeak == CheckPiiLeak

SpecLeak == InitLeak /\ [][NextLeak]_vars

\* ------------------------------------------------------------------------
\* Invocations of build_replacement_map on one replacement_pii.json
\* ------------------------------------------------------------------------
Invocations == {"p1", "p2"}

\* the pii.json of an invocation: one value of one category
PersistPii ==
    {<<[field |-> "Name", values |-> <<PyS(sAB)>>]>>,
     <<[field |-> "Name", values |-> <<PyS(sC)>>]>>}

\* replacement_pii.json before the invocations: missing, or written by an
\* earlier run
PersistedBefore == {<<>>, <<Entry("Name", sC, dX)>>}

InitPersist ==
    /\ dummy_data \in {[f \in {"Name"} |-> <<dX>>], [f \in {"Name"} |-> <<dX, dXup>>]}
    /\ file \in PersistedBefore
    /\ master = <<>>
    /\ text = <<>>
    /\ replacement_map = <<>>
    /\ custom_thresholds = <<>>
    /\ verbose = FALSE
    /\ returned = <<>>
    /\ pii_data = <<>>
    /\ leaks_data = <<>>
    /\ verdict = <<>>
    /\ pii_of \in [Invocations -> PersistPii]
    /\ pc = [p \in Invocations |-> "start"]
    /\ local = [p \in Invocations |-> <<>>]
    /\ torn = FALSE
    /\ before_write = [p \in Invocations |-> <<>>]

\* load_json of the persisted map and the loop over pii_data: the map is
\* read and merged in memory; a text that is not JSON makes json.load raise
LoadAndMerge(p) ==
    /\ pc[p] = "start"
    /\ IF torn
       THEN /\ pc' = [pc EXCEPT ![p] = "failed"]
            /\ UNCHANGED local
       ELSE \E r \in build_replacement_map(pii_of[p], dummy_data, file) :
               /\ local' = [local EXCEPT ![p] = r.map]
               /\ pc' = [pc EXCEPT ![p] = "merged"]
    /\ UNCHANGED <<pii_of, torn, before_write>>
    /\ UNCHANGED <<dummy_data, file, master>>
    /\ UNCHANGED replaceVars
    /\ UNCHANGED leakVars

\* save_json: open(path, "w") truncates replacement_pii.json
OpenForWrite(p) ==
    /\ pc[p] = "merged"
    /\ before_write' = [before_write EXCEPT ![p] = file]
    /\ file' = <<>>
    /\ torn' = TRUE
    /\ pc' = [pc EXCEPT ![p] = "writing"]
    /\ UNCHANGED <<pii_of, local>>
    /\ UNCHANGED <<dummy_data, master>>
    /\ UNCHANGED replaceVars
    /\ UNCHANGED leakVars

\* save_json: open(path, "w") raises; the file is not touched
FailOpen(p) ==
    /\ pc[p] = "merged"
    /\ pc' = [pc EXCEPT ![p] = "failed"]
    /\ UNCHANGED <<pii_of, local, torn, before_write>>
    /\ UNCHANGED mapVars
    /\ UNCHANGED replaceVars
    /\ UNCHANGED leakVars

\* save_json: json.dump and the close of the file write the whole text from
\* offset 0; if another invocation has written since this one truncated the
\* file, what lies beyond this text stays and the result may be garbled
WriteAndClose(p) ==
    /\ pc[p] = "writing"
    /\ file' = local[p]
    /\ torn' \in (IF torn THEN {FALSE} ELSE BOOLEAN)
    /\ pc' = [pc EXCEPT ![p] = "done"]
    /\ UNCHANGED <<pii_of, local, before_write>>
    /\ UNCHANGED <<dummy_data, master>>
    /\ UNCHANGED replaceVars
    /\ UNCHANGED leakVars

\* save_json: json.dump or the close raises after the file was truncated
FailWrite(p) ==
    /\ pc[p] = "writing"
    /\ pc' = [pc EXCEPT ![p] = "write_failed"]
    /\ UNCHANGED <<pii_of, local, torn, before_write>>
    /\ UNCHANGED mapVars
    /\ UNCHANGED replaceVars
    /\ UNCHANGED leakVars

NextPersist ==
    \E p \in Invocations :
       \/ LoadAndMerge(p)
       \/ OpenForWrite(p)
       \/ FailOpen(p)
       \/ WriteAndClose(p)
       \/ FailWrite(p)

SpecPersist == InitPersist /\ [][NextPersist]_vars

\* ------------------------------------------------------------------------
\* Properties of the mapping builder
\* ------------------------------------------------------------------------
Dummies(d) == {d[i].dummy : i \in DOMAIN d}
PoolValues(field) == Range(PoolOf(dummy_data, field))
Builds(pii) == build_replacement_map(pii, dummy_data, file)

\* the values of a pii.json that the builder does not skip as empty
TruthyValues(item) == {item.values[i] : i \in {j \in DOMAIN item.values : Truthy(item.values[j])}}

\* C3: a second build_replacement_map call with the same sensitive values and
\* pool, started from the map the first call persisted, adds no entry and
\* changes no substitute: it returns the first call's map.
C3_Idempotent ==
    \A pii \in PiiInputs :
        \A r1 \in Builds(pii) :
            \A r2 \in build_replacement_map(pii, dummy_data, r1.map) :
                r2.map = r1.map /\ r2.stats.new_mappings = 0

\* C3 witness: the persisted map holds a pool substitute and a fallback, and
\* a call whose two values are both already mapped returns it as it is.
C3_Witness ==
    /\ \E i \in DOMAIN file : file[i].dummy = Placeholder("Name", 1)
    /\ \E i \in DOMAIN file : file[i].dummy = dX
    /\ \E pii \in PiiInputs : \E r \in Builds(pii) :
          r.stats.existing_mappings = 2 /\ r.map = file

\* C4: every call leaves each entry of the persisted map in place: its key
\* is still present afterwards, with the same category, original and
\* substitute.
C4_Superset ==
    [][\A i \in DOMAIN file :
          /\ HasKey(file', file[i].key)
          /\ Lookup(file', file[i].key) = file[i]]_vars

\* C4 witness: a map with more entries than one call of the model can add,
\* so at least one call extended a non-empty persisted map.
C4_Witness == Len(file) > MaxVals

\* C5: the reverse map holds exactly one entry (c, s, o) for every forward
\* entry (c, o, s), has as many entries as the forward map, and looking a
\* substitute up in it leads back to the forward entry's key.
C5_ExactInverse ==
    /\ Len(master) = Len(file)
    /\ \A i \in DOMAIN file :
          /\ Cardinality({j \in DOMAIN master :
                 /\ master[j].field = file[i].field
                 /\ master[j].original = file[i].dummy
                 /\ master[j].dummy = file[i].original}) = 1
          /\ HasKey(master, ReverseKey(file[i]))
          /\ MakeKey(file[i].field,
                     PyS(Lookup(master, ReverseKey(file[i])).dummy)) = file[i].key

\* C6: a substitute that is a value of its category's pool is held by one
\* entry only, and an entry holds a substitute from outside its pool only
\* if every value of the pool is held by some entry.
C6_PoolSubstituteUnique ==
    \A i \in DOMAIN file :
        IF file[i].dummy \in PoolValues(file[i].field)
        THEN \A j \in DOMAIN file : j # i => file[j].dummy # file[i].dummy
        ELSE PoolValues(file[i].field) \subseteq Dummies(file)

\* C7: in every call, each new entry takes an unused pool value while one
\* remains, and otherwise a fallback [REDACTED-<category>-<n>] that no
\* earlier entry holds and that is not a value of the pool.
C7_ExhaustionFallback ==
    \A pii \in PiiInputs : \A r \in Builds(pii) :
        \A k \in (Len(file) + 1)..Len(r.map) :
            LET e == r.map[k]
                before == Dummies(SubSeq(r.map, 1, k - 1))
                avail == PoolValues(e.field) \ before
            IN IF avail # {} THEN e.dummy \in avail
               ELSE /\ e.dummy = Placeholder(e.field, k - 1)
                    /\ e.dummy \notin before
                    /\ e.dummy \notin PoolValues(e.field)

\* C8: in every call, each non-empty sensitive value of a category whose
\* pool is empty or missing is mapped, to a fallback substitute.
C8_EmptyPoolFallback ==
    \A pii \in PiiInputs : \A r \in Builds(pii) :
        \A n \in DOMAIN pii :
            PoolOf(dummy_data, pii[n].field) = <<>> =>
                \A v \in TruthyValues(pii[n]) :
                    /\ HasKey(r.map, MakeKey(pii[n].field, v))
                    /\ \E m \in 0..Len(r.map) :
                          Lookup(r.map, MakeKey(pii[n].field, v)).dummy
                              = Placeholder(pii[n].field, m)

\* the words of the lowercased string, one space apart
KeyForm(s) == join_space(str_split(str_lower(s)), 1)

\* the first value of the list with the key of values[i]
FirstVariant(field, values, i) ==
    values[CHOOSE j \in 1..i :
              /\ Truthy(values[j]) /\ MakeKey(field, values[j]) = MakeKey(field, values[i])
              /\ \A m \in 1..(j - 1) :
                    ~(Truthy(values[m])
                      /\ MakeKey(field, values[m]) = MakeKey(field, values[i]))]

\* C19: entries are keyed by "<category>::<normalized original>" (lowercased,
\* whitespace runs collapsed, trimmed), so values of one category that are
\* repeated or differ only in case or whitespace share one entry: a key
\* occurs once, and the entry holds the first variant and the substitute it
\* was given, whatever variants come later.
C19_VariantsShareEntry ==
    /\ \A i \in DOMAIN file :
          file[i].key = FieldChars[file[i].field] \o <<":", ":">> \o KeyForm(file[i].original)
    /\ \A pii \in VariantPii : \A r \in Builds(pii) :
          /\ \A i, j \in DOMAIN r.map : r.map[i].key = r.map[j].key => i = j
          /\ \A n \in DOMAIN pii : \A i \in DOMAIN pii[n].values :
                Truthy(pii[n].values[i]) =>
                   LET key == MakeKey(pii[n].field, pii[n].values[i])
                       first == FirstVariant(pii[n].field, pii[n].values, i)
                   IN /\ HasKey(r.map, key)
                      /\ HasKey(file, key) => Lookup(r.map, key) = Lookup(file, key)
                      /\ ~HasKey(file, key) => Lookup(r.map, key).original = py_str(first)
                      /\ \A r1 \in build_replacement_map(
                                      <<[pii[n] EXCEPT !.values = SubSeq(@, 1, i)]>>,
                                      dummy_data, file) :
                            \A r2 \in build_replacement_map(
                                          <<[pii[n] EXCEPT !.values = SubSeq(@, i + 1, Len(@))]>>,
                                          dummy_data, r1.map) :
                               Lookup(r2.map, key) = Lookup(r1.map, key)

\* the persisted map holds an entry whose original is a variant in case and
\* whitespace of its key, next to another entry, and a call with the other
\* variant of that value returns the map as it is
C19_Witness ==
    /\ Len(file) >= 2
    /\ \E i \in DOMAIN file : file[i].original = <<" ", "A", " ", " ", "b">>
    /\ \E r \in Builds(<<[field |-> "Name",
                           values |-> <<PyS(<<"a", " ", "b">>), PyS(<<" ", "A", " ", " ", "b">>)>>]>>) :
          r.map = file /\ r.stats.existing_mappings = 2

\* C20: a sensitive value that is an integer or another non-string scalar,
\* 0 and False included, is treated as its string form: every call gives it
\* an entry under the key of the normalized string form, with the string
\* form as the original.
C20_ScalarsAsStrings ==
    \A pii \in VariantPii : \A r \in Builds(pii) :
        \A n \in DOMAIN pii : \A i \in DOMAIN pii[n].values :
            pii[n].values[i].t # "str" =>
               /\ HasKey(r.map, MakeKey(pii[n].field, pii[n].values[i]))
               /\ Lookup(r.map, MakeKey(pii[n].field, pii[n].values[i])).original
                     = py_str(pii[n].values[i])


\* ------------------------------------------------------------------------
\* Properties of the replacement engine
\* ------------------------------------------------------------------------
Called == returned # <<>>

\* every span found for any entry, and the replacements that are applied
Found == all_replacements(text, replacement_map, custom_thresholds)
Applied == unique_replacements(text, replacement_map, custom_thresholds)

Intersect(a, b) == a.start < b.end /\ b.start < a.end
SameEntry(a, b) == a.field = b.field /\ a.original_value = b.original_value

\* C1: the replacements that smart_replace applies to the text never hold two
\* ranges (start1, end1), (start2, end2) with start1 < end2 and start2 < end1,
\* whether or not the two ranges come from the same entry.
C1_AppliedRangesDisjoint ==
    Called => LET applied == Applied
              IN \A i, j \in DOMAIN applied :
                    i # j => ~Intersect(applied[i], applied[j])

\* the offsets of the letters and digits of the text, and what the text reads
\* once lowercased and stripped of everything else
AlnumOffsets(s) ==
    LET IsAlnum(i) == IsLowerAlnum(lower_char(s[i])) IN SelectSeq(Indices(s), IsAlnum)

\* the places k at which value occurs in the stripped form of s
OccurrencesIn(s, value) ==
    LET stripped == normalize_aggressive(s)
        v == normalize_aggressive(value)
    IN {k \in 1..(Len(stripped) - Len(v) + 1) : SubSeq(stripped, k, k + Len(v) - 1) = v}

\* every letter and digit of every occurrence of the entry's value lies
\* inside an applied range
OccurrencesReplaced(entry, applied) ==
    LET at == AlnumOffsets(text)
        len == Len(normalize_aggressive(entry.original))
    IN \A k \in OccurrencesIn(text, entry.original) :
          \A m \in k..(k + len - 1) :
             \E i \in DOMAIN applied :
                applied[i].start < at[m] /\ at[m] <= applied[i].end

InScenario ==
    /\ text = ScenarioText
    /\ replacement_map = ScenarioMap
    /\ custom_thresholds = ScenarioThresholds

\* C2: for the two-entry example (name Satya Prakash, record number SWH123,
\* thresholds 75 and 85) smart_replace replaces every occurrence of the name,
\* the split one included, and every spelling of the record number: the
\* output, lowercased and stripped of non-alphanumerics, holds neither
\* "satyaprakash" nor "swh123".
C2_ScenarioRedacted ==
    (InScenario /\ Called) =>
        /\ LET applied == Applied
           IN \A k \in DOMAIN replacement_map :
                 OccurrencesReplaced(replacement_map[k], applied)
        /\ \A k \in DOMAIN replacement_map :
              OccurrencesIn(returned[1], replacement_map[k].original) = {}

\* the example has been run: both values occur twice in the text, once in a
\* split spelling, and the text has been rewritten
C2_Witness ==
    /\ InScenario /\ Called
    /\ \A k \in DOMAIN replacement_map :
          Cardinality(OccurrencesIn(text, replacement_map[k].original)) = 2
    /\ returned[1] # text

\* what find_spans returns for an entry of the map
SpansOf(entry) ==
    find_spans(text, entry.original, entry.field,
               ThresholdOf(custom_thresholds, entry.field))

CandidatesOf(entry) ==
    all_spans(text, entry.original, entry.field,
              ThresholdOf(custom_thresholds, entry.field))

NoTwoIntersect(spans) ==
    \A i, j \in DOMAIN spans : i # j => ~Intersect(spans[i], spans[j])

InScoreOrder(spans) ==
    \A i \in 1..(Len(spans) - 1) :
       \/ ScoreLess(spans[i + 1].score, spans[i].score)
       \/ (spans[i + 1].score = spans[i].score /\ spans[i].start <= spans[i + 1].start)

\* C9: the list that find_spans returns for a text, a value, a category and a
\* threshold holds no two spans whose ranges intersect, and it is ordered by
\* descending score and, among equal scores, by ascending start offset.
C9_SpansDisjointAndOrdered ==
    Called => \A k \in DOMAIN replacement_map :
                 LET spans == SpansOf(replacement_map[k])
                 IN NoTwoIntersect(spans) /\ InScoreOrder(spans)

\* find_spans has returned spans of different scores and has dropped a candidate
C9_Witness ==
    /\ Called
    /\ \E k \in DOMAIN replacement_map :
          LET spans == SpansOf(replacement_map[k])
          IN /\ Len(CandidatesOf(replacement_map[k])) > Len(spans)
             /\ \E i \in 1..(Len(spans) - 1) : ScoreLess(spans[i + 1].score, spans[i].score)

\* a found span that beats every other found span it intersects
Dominant(found, i) ==
    \A k \in DOMAIN found :
       (k # i /\ Intersect(found[k], found[i]))
          => ScoreLess(found[k].similarity, found[i].similarity)

\* C10: spans of different entries that intersect, or cover the same range, are
\* resolved by score whatever the order of the entries: a span with a higher
\* score than every span it intersects is applied, and the spans of other
\* entries that intersect it are dropped.
C10_ResolvedByScore ==
    Called =>
        LET found == Found
            applied == Applied
        IN \A i \in DOMAIN found :
              Dominant(found, i) =>
                 /\ \E a \in DOMAIN applied : applied[a] = found[i]
                 /\ \A j \in DOMAIN found :
                       (~SameEntry(found[j], found[i]) /\ Intersect(found[j], found[i]))
                          => \A a \in DOMAIN applied : applied[a] # found[j]

\* the working text of smart_replace when the k-th accepted replacement is
\* about to be applied
WorkingText(applied, k) == apply_replacements(text, SubSeq(applied, 1, k - 1), 1)

\* C11: smart_replace applies the accepted replacements in order of
\* non-increasing start offset, and when a replacement (start, end, substitute)
\* is applied the working text still reads in [start, end) what the input
\* text reads there, so that the result is the input with exactly the
\* accepted ranges replaced.
C11_AppliedInPlace ==
    Called =>
        LET applied == Applied
        IN /\ \A k \in 1..(Len(applied) - 1) : applied[k].start >= applied[k + 1].start
           /\ \A k \in DOMAIN applied :
                 Slice(WorkingText(applied, k), applied[k].start, applied[k].end)
                    = Slice(text, applied[k].start, applied[k].end)

\* a string with each of its words title-cased: the first character of a
\* word in upper case, the others in lower case, the whitespace as it is
TitleWords(s) ==
    [i \in DOMAIN s |-> IF i = 1 \/ IsSpace(s[i - 1]) THEN upper_char(s[i])
                        ELSE lower_char(s[i])]

\* the substitute in the case of the matched text
CasedAs(matched, substitute) ==
    IF str_isupper(matched) THEN str_upper(substitute)
    ELSE IF matched[1] \in UpperSet THEN TitleWords(substitute)
    ELSE str_lower(substitute)

\* the entries of the map that a replacement comes from
EntriesOf(rep) ==
    {k \in DOMAIN replacement_map :
        /\ replacement_map[k].field = rep.field
        /\ replacement_map[k].original = rep.original_value}

\* C12: in a category with case mimicry the substitute inserted for an
\* accepted span is the entry's substitute in upper case if the matched text is
\* entirely upper case, else with each word title-cased if the matched text
\* starts with an upper-case character, else in lower case; in a category
\* without case mimicry it is the entry's substitute verbatim.
C12_CaseMimicry ==
    Called =>
        LET applied == Applied
        IN \A i \in DOMAIN applied : \A k \in EntriesOf(applied[i]) :
              applied[i].dummy_value
                 = IF ConfigOf(applied[i].field).preserve_case
                   THEN CasedAs(applied[i].matched_text, replacement_map[k].dummy)
                   ELSE replacement_map[k].dummy

\* ------------------------------------------------------------------------
\* Properties of the leak check
\* ------------------------------------------------------------------------
Checked == verdict # <<>>

\* the leaks the verdict lists; the "no leak" verdict lists none
ListedLeaks == IF verdict[1].real_pii_leak THEN verdict[1].leaks ELSE <<>>

\* the sensitive values of pii.json, each in its string form
SensitiveValues ==
    UNION {{py_str(pii_data[k].values[i]) : i \in DOMAIN pii_data[k].values} :
              k \in DOMAIN pii_data}

\* the normalized text of a candidate and a normalized sensitive value
\* contain one another, one way or the other
ContainEither(item, value) ==
    \/ str_contains(leak_normalize(detected_value_of(item)), leak_normalize(value))
    \/ str_contains(leak_normalize(value), leak_normalize(detected_value_of(item)))

ConfirmedBySome(item) ==
    \E v \in SensitiveValues : str_strip(v) # <<>> /\ ContainEither(item, v)

\* C13: check_pii_leak confirms a candidate if and only if there is a
\* non-blank sensitive value such that the normalized candidate text contains
\* the normalized value or the normalized value contains the normalized
\* candidate text: the listed leaks are exactly those candidates, in order.
C13_ConfirmedIffContained ==
    Checked =>
        LET expected == SelectSeq(leaks_data, ConfirmedBySome)
        IN ListedLeaks = [i \in DOMAIN expected |-> confirmed_entry(expected[i])]

\* the lowercased letters and digits of a string, in order
LowerAlnumOf(s) == SelectSeq(str_lower(s), IsLowerAlnum)

\* C14: the normalization that the leak check applies to every sensitive
\* value and to every matched text returns exactly the lowercased
\* alphanumeric characters of the string, so strings that differ only in
\* non-alphanumeric characters have the same normal form.
C14_NormalizeStripsNonAlnum ==
    Checked =>
        /\ \A v \in SensitiveValues : leak_normalize(v) = LowerAlnumOf(v)
        /\ \A i \in DOMAIN leaks_data :
              leak_normalize(detected_value_of(leaks_data[i]))
                 = LowerAlnumOf(detected_value_of(leaks_data[i]))

\* pii.json without its blank string values
WithoutBlank(pii) ==
    LET NotBlank(v) == ~(v.t = "str" /\ str_strip(v.s) = <<>>)
    IN [k \in DOMAIN pii |-> [pii[k] EXCEPT !.values = SelectSeq(@, NotBlank)]]

\* C15: a candidate whose matched text is empty, or normalizes to empty, is
\* never listed among the confirmed leaks, and a blank sensitive value
\* confirms no candidate: the verdict is the one reached without it.
C15_EmptySkipped ==
    Checked =>
        /\ \A i \in DOMAIN ListedLeaks :
              leak_normalize(ListedLeaks[i].matched_text) # <<>>
        /\ verdict[1] = check_pii_leak(WithoutBlank(pii_data), leaks_data)

\* a is b with some of its elements left out
RECURSIVE IsSubsequence(_, _)
IsSubsequence(a, b) ==
    IF a = <<>> THEN TRUE
    ELSE IF b = <<>> THEN FALSE
    ELSE IF Head(a) = Head(b) THEN IsSubsequence(Tail(a), Tail(b))
    ELSE IsSubsequence(a, Tail(b))

\* C16: real_pii_leak is true exactly when total_real_leaks >= 1,
\* total_real_leaks is the number of listed leaks, and each candidate is
\* listed at most once, also when several sensitive values match it, so the
\* count never exceeds the number of candidates.
C16_VerdictConsistent ==
    Checked =>
        /\ verdict[1].real_pii_leak <=> verdict[1].total_real_leaks >= 1
        /\ verdict[1].total_real_leaks = Len(ListedLeaks)
        /\ IsSubsequence(ListedLeaks,
                         [i \in DOMAIN leaks_data |-> confirmed_entry(leaks_data[i])])
        /\ verdict[1].total_real_leaks <= Len(leaks_data)

\* a verdict that lists a leak for a candidate that two sensitive values match
C16_Witness ==
    /\ Checked
    /\ verdict[1].real_pii_leak
    /\ \E i \in DOMAIN leaks_data :
          /\ leak_normalize(detected_value_of(leaks_data[i])) # <<>>
          /\ Cardinality({v \in SensitiveValues :
                             /\ leak_normalize(v) # <<>>
                             /\ ContainEither(leaks_data[i], v)}) >= 2

\* ------------------------------------------------------------------------
\* Properties of concurrent and failing invocations of the builder
\* ------------------------------------------------------------------------
\* C17: under every interleaving of two build_replacement_map invocations on
\* the same replacement_pii.json the read-merge-write of one is serialized
\* with respect to the other: once both have saved, the persisted map holds
\* every entry that either of them recorded, so no value that one of them
\* mapped is persisted with another substitute (no lost update).
C17_NoLostUpdate ==
    (\A p \in Invocations : pc[p] = "done") =>
        /\ ~torn
        /\ \A p \in Invocations : \A i \in DOMAIN local[p] :
              /\ HasKey(file, local[p][i].key)
              /\ Lookup(file, local[p][i].key) = local[p][i]

\* C18: a failure at any point of the write of a mapping never corrupts the
\* file written before: after the failure replacement_pii.json holds the
\* complete previous map or the complete new map.
C18_FailedWriteKeepsFile ==
    \A p \in Invocations :
       (pc[p] = "write_failed" /\ \A q \in Invocations \ {p} : pc[q] = "start") =>
          /\ ~torn
          /\ file = before_write[p] \/ file = local[p]

\* ------------------------------------------------------------------------
\* Properties of the replacement log and of the span finder
\* ------------------------------------------------------------------------
SameRange(a, b) == a.start = b.start /\ a.end = b.end

\* C21: with verbose=True smart_replace returns one log entry per replacement
\* it applied: the positions of the log are the applied ranges, one entry
\* each, and the dummy_value of an entry is the text inserted at its position.
C21_LogMatchesApplied ==
    (Called /\ verbose) =>
        LET applied == Applied
            log == returned[2]
        IN /\ Len(log) = Len(applied)
           /\ \A i \in DOMAIN applied :
                 /\ Cardinality({j \in DOMAIN log : SameRange(log[j], applied[i])}) = 1
                 /\ \A j \in DOMAIN log :
                       SameRange(log[j], applied[i])
                          => log[j].dummy_value = applied[i].dummy_value
           /\ \A j \in DOMAIN log : \E i \in DOMAIN applied : SameRange(log[j], applied[i])

\* a verbose call in which two entries matched the same range with different
\* substitutes, and one of them was applied and logged
C21_Witness ==
    /\ Called /\ verbose
    /\ Len(returned[2]) >= 1
    /\ LET found == Found
       IN \E i, j \in DOMAIN found :
             SameRange(found[i], found[j]) /\ found[i].dummy_value # found[j].dummy_value

\* span a wins over span b in the order of the greedy pass: a higher score,
\* or the same score and a start that is not later
WinsOver(a, b) ==
    ScoreLess(b.score, a.score) \/ (a.score = b.score /\ a.start <= b.start)

\* C22: find_spans resolves overlaps by one greedy pass over the candidates
\* of all strategies, sorted by descending score and ascending start: the
\* accepted spans are candidates that do not intersect one another, and every
\* rejected candidate intersects an accepted span with a higher score, or
\* with the same score and a start that is not later.
C22_GreedyByScore ==
    Called =>
        \A k \in DOMAIN replacement_map :
           LET spans == SpansOf(replacement_map[k])
               candidates == CandidatesOf(replacement_map[k])
           IN /\ Range(spans) \subseteq Range(candidates)
              /\ NoTwoIntersect(spans)
              /\ \A i \in DOMAIN candidates :
                    candidates[i] \notin Range(spans) =>
                       \E j \in DOMAIN spans :
                          /\ Intersect(spans[j], candidates[i])
                          /\ WinsOver(spans[j], candidates[i])

\* a candidate was rejected for an accepted span of the same score that
\* starts earlier, and another for an accepted span of a higher score
C22_Witness ==
    /\ Called
    /\ \E k \in DOMAIN replacement_map :
          LET spans == SpansOf(replacement_map[k])
              candidates == CandidatesOf(replacement_map[k])
          IN /\ \E i \in DOMAIN candidates : \E j \in DOMAIN spans :
                   /\ candidates[i] \notin Range(spans)
                   /\ Intersect(spans[j], candidates[i])
                   /\ spans[j].score = candidates[i].score
                   /\ spans[j].start < candidates[i].start
             /\ \E i \in DOMAIN candidates : \E j \in DOMAIN spans :
                   /\ candidates[i] \notin Range(spans)
                   /\ Intersect(spans[j], candidates[i])
                   /\ ScoreLess(candidates[i].score, spans[j].score)

\* the threshold an entry's category is to be matched with: the override of
\* the category if one is supplied, else the configured one
SuppliedThreshold(field) ==
    IF field \in DOMAIN custom_thresholds THEN custom_thresholds[field]
    ELSE ConfigOf(field).threshold

\* the word windows of Strategy 2 for an entry, whatever their score
WindowsOf(entry) ==
    LET norm_target == normalize(entry.original)
        target_len == Len(str_split(norm_target))
    IN window_spans(text, find_words(text), entry.original, norm_target, target_len,
                    MinWindow(target_len, ConfigOf(entry.field)),
                    target_len + ConfigOf(entry.field).window_extra)

\* C23: for every entry smart_replace has find_spans work with the threshold
\* configured for the entry's category, or with the override of that category
\* when one is supplied; every override from 0 to 100, 0 included, takes the
\* place of the configured threshold, so a word window is a candidate
\* whenever its score reaches the override.
C23_OverrideIsThreshold ==
    Called =>
        \A k \in DOMAIN replacement_map :
           LET entry == replacement_map[k]
           IN /\ EffectiveThreshold(ThresholdOf(custom_thresholds, entry.field),
                                    ConfigOf(entry.field))
                    = SuppliedThreshold(entry.field)
              /\ Range(keep_at_least(WindowsOf(entry), SuppliedThreshold(entry.field)))
                    \subseteq Range(CandidatesOf(entry))

\* ------------------------------------------------------------------------
\* The replacement workflow on short values of an address-like category and
\* of a short-identifier category
\* ------------------------------------------------------------------------
ShortCategories == {"Address", "Sex"}

\* one short value, in either category
ShortMaps == {<<Entry(f, t, <<"z">>)>> : f \in ShortCategories, t \in Targets}

InitShort ==
    /\ dummy_data = <<>>
    /\ file = <<>>
    /\ master = <<>>
    /\ text \in Texts
    /\ replacement_map \in ShortMaps
    /\ custom_thresholds = [f \in {} |-> 0]
    /\ verbose \in BOOLEAN
    /\ returned = <<>>
    /\ pii_data = <<>>
    /\ leaks_data = <<>>
    /\ verdict = <<>>
    /\ NoInvocation

SpecShort == InitShort /\ [][NextReplace]_vars

\* the categories whose values extend over several words of a document
SpatialCategories ==
    {"Address", "Healthcare", "FullAddress", "StreetOnly", "CityStateZip"}

\* a value of fewer than 5 normalized characters that has a word
IsShortTarget(entry) ==
    /\ Len(normalize(entry.original)) < 5
    /\ str_split(normalize(entry.original)) # <<>>

\* a candidate is accounted for when it is returned or gives way to a returned
\* span that intersects it
AccountedFor(candidate, spans) ==
    \/ candidate \in Range(spans)
    \/ \E j \in DOMAIN spans : Intersect(spans[j], candidate)

\* C24: for a value of fewer than 5 normalized characters in an address-like
\* category (Address, Healthcare, FullAddress, StreetOnly, CityStateZip) only
\* the word windows and the character-level matching are left out, so every
\* literal occurrence that find_exact_patterns finds is returned by find_spans
\* or gives way to a returned span that intersects it; for a value of that
\* length in a short-identifier category no strategy is left out: the same
\* holds of every candidate of the four strategies.
C24_ShortTargetKeepsExact ==
    Called =>
        \A k \in DOMAIN replacement_map :
           LET entry == replacement_map[k]
               spans == SpansOf(entry)
               exact == find_exact_patterns(text, entry.original)
               candidates == CandidatesOf(entry)
           IN IsShortTarget(entry) =>
                 IF entry.field \in SpatialCategories
                 THEN \A i \in DOMAIN exact : AccountedFor(exact[i], spans)
                 ELSE \A i \in DOMAIN candidates : AccountedFor(candidates[i], spans)

\* a span lies in the input text: its offsets are offsets of the text as it
\* was passed in, and its matched text is what the text reads there
InInputText(span) ==
    /\ 0 <= span.start
    /\ span.start < span.end
    /\ span.end <= Len(text)
    /\ span.text = Slice(text, span.start, span.end)

\* C25: every span (start, end, matched, score) that any of the four
\* strategies of find_spans yields, and every span find_spans returns, has
\* 0 <= start < end <= len(text) and matched = text[start:end] in the exact
\* input text, and so has every replacement that smart_replace collects from
\* them; the normalized copies are used for the scores only.
C25_OffsetsInInputText ==
    Called =>
        /\ \A k \in DOMAIN replacement_map :
              LET spans == SpansOf(replacement_map[k])
                  candidates == CandidatesOf(replacement_map[k])
              IN /\ \A i \in DOMAIN candidates : InInputText(candidates[i])
                 /\ \A i \in DOMAIN spans : InInputText(spans[i])
        /\ LET found == Found
           IN \A i \in DOMAIN found :
                 /\ 0 <= found[i].start
                 /\ found[i].start < found[i].end
                 /\ found[i].end <= Len(text)
                 /\ found[i].matched_text = Slice(text, found[i].start, found[i].end)

\* find_spans has returned a span that does not start at offset 0 and that
\* ends beyond the length of the normalized text
C25_Witness ==
    /\ Called
    /\ \E k \in DOMAIN replacement_map :
          LET spans == SpansOf(replacement_map[k])
          IN \E i \in DOMAIN spans :
                /\ spans[i].start > 0
                /\ spans[i].end > Len(normalize(text))

\* ------------------------------------------------------------------------
\* The replacement workflow on texts of several words and values of one
\* to three words
\* ------------------------------------------------------------------------
MaxWords == 4

\* the texts of at most MaxWords words, one space apart; "a" is a word of
\* the values and "c" is not
WindowTexts ==
    {join_space(ws, 1) : ws \in UNION {[1..k -> {<<"a">>, <<"c">>}] : k \in 1..MaxWords}}

WindowTargets == {<<"a">>, <<"a", " ", "b">>, <<"a", " ", "b", " ", "a">>}

WindowCategories == {"Name", "MRN", "Sex"}

WindowMaps ==
    {<<Entry(f, t, <<"z">>)>> : f \in WindowCategories, t \in WindowTargets}

InitWindow ==
    /\ dummy_data = <<>>
    /\ file = <<>>
    /\ master = <<>>
    /\ text \in WindowTexts
    /\ replacement_map \in WindowMaps
    /\ custom_thresholds = [f \in {} |-> 0]
    /\ verbose \in BOOLEAN
    /\ returned = <<>>
    /\ pii_data = <<>>
    /\ leaks_data = <<>>
    /\ verdict = <<>>
    /\ NoInvocation

SpecWindow == InitWindow /\ [][NextReplace]_vars

\* the number of whitespace-delimited tokens of an entry's normalized value
TokenCount(entry) == Len(str_split(normalize(entry.original)))

\* the ranges of the runs of n consecutive words of the text, for every n
\* with lo100 <= 100 * n and n <= hi, at every place where the run fits
RunsBetween(words, lo100, hi) ==
    {<<words[p[1]][1], words[p[1] + p[2] - 1][2]>> :
        p \in {q \in (1..Len(words)) \X (1..Len(words)) :
                  /\ lo100 <= 100 * q[2]
                  /\ q[2] <= hi
                  /\ q[1] + q[2] - 1 <= Len(words)}}

\* the ranges of the windows that Strategy 2 scores for an entry
ScoredRanges(entry) ==
    LET windows == WindowsOf(entry)
    IN {<<windows[i].start, windows[i].end>> : i \in DOMAIN windows}

\* a scored window is kept exactly when its score reaches the threshold: the
\* windows that reach it are candidates, and a window below it is a candidate
\* only where the literal search yields the same span
KeptAtThreshold(entry) ==
    LET windows == WindowsOf(entry)
        threshold == EffectiveThreshold(ThresholdOf(custom_thresholds, entry.field),
                                        ConfigOf(entry.field))
        candidates == CandidatesOf(entry)
    IN \A i \in DOMAIN windows :
          IF ScoreAtLeast(windows[i].score, threshold)
          THEN windows[i] \in Range(candidates)
          ELSE windows[i] \in Range(candidates) =>
                  windows[i] \in Range(find_exact_patterns(text, entry.original))

ServedFromSharedSet ==
    \A pii \in PiiInputs : \A r \in Builds(pii) :
        \A k \in (Len(file) + 1)..Len(r.map) :
            LET e == r.map[k]
                avail == PoolValues(e.field) \ Dummies(SubSeq(r.map, 1, k - 1))
            IN IF avail # {} THEN e.dummy \in avail
               ELSE e.dummy = Placeholder(e.field, k - 1)

\* C27: the set of used substitutes of build_replacement_map is one set for
\* all categories, seeded from every entry of the loaded map: a new entry
\* never draws a substitute that an entry of any category already holds, and
\* gets a placeholder when its pool has no other value, even if no entry of
\* its own category uses the pool's values; and no two entries of the
\* persisted map hold the same substitute.
C27_SharedUsedSet ==
    /\ ServedFromSharedSet
    /\ \A i, j \in DOMAIN file : i # j => file[i].dummy # file[j].dummy

=============================================================================
